---- MODULE Spec2Model ----
(***************************************************************************)
(* Model of feedcode.py: the command-line validation of --lang, the        *)
(* resolution of languages to extensions, the recursive directory walk of  *)
(* process_directory, the writing of the output file and the token count.  *)
(*                                                                         *)
(* Text is modelled character by character: a name, a glob pattern and a   *)
(* tree line are sequences of one-character strings.  The box-drawing      *)
(* characters of the tree are written by their code points ("U+2514" is    *)
(* the corner, "U+251C" the tee, "U+2500" the horizontal bar, "U+2502" the *)
(* vertical bar).  A path is a sequence of names, the root's name first.   *)
(* A --lang value is a sequence of atoms: whole words, " " and ",".        *)
(***************************************************************************)
EXTENDS Integers, Sequences, FiniteSets, TLC

(***************************************************************************)
(* Bounds of the model.                                                    *)
(***************************************************************************)
MaxEntries == 3    \* entries below the root in a generated directory tree
MaxExtra == 1      \* patterns of ALL_EXCLUSIONS + --exclude beyond the defaults
MaxLangLen == 3    \* atoms in a --lang value

(***************************************************************************)
(* Characters: code points and str.lower().                                *)
(***************************************************************************)
Ord(c) ==
    CASE c = "." -> 46 [] c = "B" -> 66 [] c = "P" -> 80 [] c = "Y" -> 89
      [] c = "_" -> 95 [] c = "a" -> 97 [] c = "b" -> 98 [] c = "c" -> 99
      [] c = "e" -> 101 [] c = "j" -> 106 [] c = "p" -> 112 [] c = "r" -> 114 [] c = "s" -> 115
      [] c = "t" -> 116 [] c = "y" -> 121

LowerChar(c) ==
    CASE c = "B" -> "b" [] c = "P" -> "p" [] c = "Y" -> "y" [] OTHER -> c

Lower(s) == [i \in 1..Len(s) |-> LowerChar(s[i])]

\* s < t in Python's string order (by code point, a proper prefix first)
RECURSIVE StrLess(_, _)
StrLess(s, t) ==
    IF t = <<>> THEN FALSE
    ELSE IF s = <<>> THEN TRUE
    ELSE IF Ord(s[1]) # Ord(t[1]) THEN Ord(s[1]) < Ord(t[1])
    ELSE StrLess(Tail(s), Tail(t))

RECURSIVE Concat(_)
Concat(ss) == IF ss = <<>> THEN <<>> ELSE Head(ss) \o Concat(Tail(ss))

(***************************************************************************)
(* The file system handed to the program.                                  *)
(***************************************************************************)
RootName == <<"r">>
RootPath == <<RootName>>

\* the names of the generated trees; no two have the same lowercased form, so
\* the sort key never ties and the order of iterdir() plays no part
Names ==
    { <<"a", ".", "p", "y">>,
      <<"B", ".", "P", "Y">>,
      <<".", "p", "y">>,
      <<"t", "e", "s", "t", "_", "c">> }

\* "text": decodes as UTF-8; "binary": read() raises UnicodeDecodeError
FileKinds == {"text", "binary"}
Kinds == {"dir"} \cup FileKinds

Name(p) == p[Len(p)]
Parent(p) == SubSeq(p, 1, Len(p) - 1)
IsDir(t, p) == t[p] = "dir"
ChildrenOf(t, d) == {p \in DOMAIN t : Len(p) = Len(d) + 1 /\ Parent(p) = d}

\* an order of the paths in which a directory comes before what it holds
PathLess(p, q) ==
    \/ Len(p) < Len(q)
    \/ /\ Len(p) = Len(q)
       /\ \E i \in 1..Len(p) : StrLess(p[i], q[i]) /\ \A h \in 1..(i - 1) : p[h] = q[h]

\* every tree obtained from t by adding one entry under an existing directory;
\* entries are added in the order of PathLess, so each tree is built once
Grow(t) ==
    UNION { { t @@ (Append(d, nm) :> k) :
                 nm \in {m \in Names : \A q \in DOMAIN t : PathLess(q, Append(d, m))},
                 k \in Kinds }
            : d \in {q \in DOMAIN t : t[q] = "dir"} }

RECURSIVE Trees(_)
Trees(n) ==
    IF n = 0 THEN {(RootPath :> "dir")}
    ELSE LET S == Trees(n - 1) IN S \cup UNION {Grow(t) : t \in S}

(***************************************************************************)
(* Path.match: glob matching of a relative pattern, aligned on the right.  *)
(***************************************************************************)
\* fnmatch of one path component: "*" is any run of characters, "?" any one
RECURSIVE FnMatch(_, _)
FnMatch(pat, s) ==
    IF pat = <<>> THEN s = <<>>
    ELSE IF Head(pat) = "*"
         THEN FnMatch(Tail(pat), s) \/ (s # <<>> /\ FnMatch(pat, Tail(s)))
    ELSE IF s = <<>> THEN FALSE
    ELSE IF Head(pat) = "?" THEN FnMatch(Tail(pat), Tail(s))
    ELSE Head(pat) = Head(s) /\ FnMatch(Tail(pat), Tail(s))

\* a pattern is a sequence of components (the text between the "/")
PathMatch(path, pattern) ==
    /\ Len(pattern) <= Len(path)
    /\ \A k \in 1..Len(pattern) :
           FnMatch(pattern[k], path[Len(path) - Len(pattern) + k])

default_exclusions ==
    << << <<".", "g", "i", "t">>, <<"*">> >>,
       << <<".", "i", "d", "e", "a">>, <<"*">> >>,
       << <<".", "v", "s", "c", "o", "d", "e">>, <<"*">> >>,
       << <<"t", "e", "s", "t", "s">>, <<"*">> >>,
       << <<"*">>, <<"t", "e", "s", "t", "s">>, <<"*">> >>,
       << <<"t", "e", "s", "t", "_", "*">> >>,
       << <<"*", "_", "t", "e", "s", "t", ".", "p", "y">> >> >>

\* patterns that ALL_EXCLUSIONS and --exclude may add: "*.PY", "c*", "r/a.py"
ExtraPatterns ==
    { << <<"*", ".", "P", "Y">> >>,
      << <<"c", "*">> >>,
      << <<"r">>, <<"a", ".", "p", "y">> >> }

RECURSIVE SeqsUpTo(_, _)
SeqsUpTo(S, n) ==
    IF n = 0 THEN {<<>>}
    ELSE LET R == SeqsUpTo(S, n - 1) IN R \cup {Append(r, x) : r \in R, x \in S}

\* mutant: the loop over the patterns returns after its first pattern
should_exclude_first(excl, path) == excl # <<>> /\ PathMatch(path, excl[1])

should_exclude(excl, path) == \E k \in 1..Len(excl) : PathMatch(path, excl[k])

(***************************************************************************)
(* Languages and extensions.                                               *)
(***************************************************************************)
LangAtoms == {"python", "javascript", "rust", "Python", " ", ","}

\* "no --lang option": a value that is no string over LangAtoms
None == <<"None">>

SUPPORTED_LANGS ==
    << [lang |-> <<"python">>, exts |-> << <<"p", "y">> >>],
       [lang |-> <<"javascript">>,
        exts |-> << <<"j", "s">>, <<"j", "s", "x">>, <<"t", "s">>, <<"t", "s", "x">> >>] >>

Supported(name) == \E k \in 1..Len(SUPPORTED_LANGS) : SUPPORTED_LANGS[k].lang = name
ExtsOf(name) == SUPPORTED_LANGS[CHOOSE k \in 1..Len(SUPPORTED_LANGS) : SUPPORTED_LANGS[k].lang = name].exts

\* str.split(","): the pieces between the commas, empty pieces included
RECURSIVE Split(_)
Split(s) ==
    IF \A i \in 1..Len(s) : s[i] # "," THEN <<s>>
    ELSE LET i == CHOOSE j \in 1..Len(s) : s[j] = "," /\ \A h \in 1..(j - 1) : s[h] # ","
         IN <<SubSeq(s, 1, i - 1)>> \o Split(SubSeq(s, i + 1, Len(s)))

\* str.strip()
RECURSIVE Strip(_)
Strip(s) ==
    IF s = <<>> THEN s
    ELSE IF Head(s) = " " THEN Strip(Tail(s))
    ELSE IF s[Len(s)] = " " THEN Strip(SubSeq(s, 1, Len(s) - 1))
    ELSE s

\* str.lower() on a --lang piece
LowerLang(s) == [i \in 1..Len(s) |-> IF s[i] = "Python" THEN "python" ELSE s[i]]

\* mutant: only the first language of the list is looked up
ExtendFirst(langs) ==
    IF langs # <<>> /\ Supported(Head(langs)) THEN ExtsOf(Head(langs)) ELSE <<>>

RECURSIVE ExtendAll(_)
ExtendAll(langs) ==
    IF langs = <<>> THEN <<>>
    ELSE (IF Supported(Head(langs)) THEN ExtsOf(Head(langs)) ELSE <<>>) \o ExtendAll(Tail(langs))

get_extensions_for_langs(langs_str) ==
    IF langs_str = None \/ langs_str = <<>>
    THEN Concat([k \in 1..Len(SUPPORTED_LANGS) |-> SUPPORTED_LANGS[k].exts])
    ELSE LET pieces == Split(langs_str)
             langs == [k \in 1..Len(pieces) |-> LowerLang(Strip(pieces[k]))]
         IN ExtendAll(langs)

\* mutant: the pieces are stripped and lowercased before the check
RejectsLangNormalised(args_lang) ==
    /\ args_lang # None
    /\ args_lang # <<>>
    /\ \E k \in 1..Len(Split(args_lang)) : ~Supported(LowerLang(Strip(Split(args_lang)[k])))

\* the check of __main__: some piece of a non-empty --lang is not a registry key
RejectsLang(args_lang) ==
    /\ args_lang # None
    /\ args_lang # <<>>
    /\ \E k \in 1..Len(Split(args_lang)) : ~Supported(Split(args_lang)[k])

(***************************************************************************)
(* Helpers of the walk.                                                    *)
(***************************************************************************)
\* mutant: the sort key uses the name as it is
KeyLessNoLower(t, x, y) ==
    IF IsDir(t, x) # IsDir(t, y) THEN IsDir(t, x)
    ELSE StrLess(Name(x), Name(y))

\* the sort key (not x.is_dir(), x.name.lower()) of two entries, compared
KeyLess(t, x, y) ==
    IF IsDir(t, x) # IsDir(t, y) THEN IsDir(t, x)
    ELSE StrLess(Lower(Name(x)), Lower(Name(y)))

RECURSIVE SortByKey(_, _)
SortByKey(t, S) ==
    IF S = {} THEN <<>>
    ELSE LET m == CHOOSE x \in S : \A y \in S \ {x} : KeyLess(t, x, y)
         IN <<m>> \o SortByKey(t, S \ {m})

\* sorted(d.iterdir(), key=...)
SortedContents(t, d) == SortByKey(t, ChildrenOf(t, d))

\* Path.suffix[1:]: the text after the last dot, when that dot is neither the
\* first nor the last character of the name
SuffixNoDot(name) ==
    LET dots == {j \in 1..Len(name) : name[j] = "."}
    IN IF dots = {} THEN <<>>
       ELSE LET j == CHOOSE d \in dots : \A e \in dots : e <= d
            IN IF 1 < j /\ j < Len(name) THEN SubSeq(name, j + 1, Len(name)) ELSE <<>>

InList(x, list) == \E k \in 1..Len(list) : list[k] = x

\* mutant: the suffix is lowercased before the comparison
SuffixIncludedIgnoringCase(item, exts) == InList(Lower(SuffixNoDot(Name(item))), exts)

\* item.suffix[1:] in extensions
SuffixIncluded(item, exts) == InList(SuffixNoDot(Name(item)), exts)

LastConnector == <<"U+2514", "U+2500", "U+2500", " ">>
MidConnector == <<"U+251C", "U+2500", "U+2500", " ">>
BlankIndent == <<" ", " ", " ", " ">>
BarIndent == <<"U+2502", " ", " ", " ">>

\* f"{prefix}{current_prefix}{item.name}"
TreeLine(prefix, is_last, item) ==
    prefix \o (IF is_last THEN LastConnector ELSE MidConnector) \o Name(item)

\* mutant: the bar is drawn whatever the position of the directory
ChildPrefixAlwaysBar(prefix, is_last) == prefix \o BarIndent

\* prefix + extension, the prefix handed to the children of a directory
ChildPrefix(prefix, is_last) == prefix \o (IF is_last THEN BlankIndent ELSE BarIndent)

\* f"# File: {item}\n\n{body}\n\n": a header unit and a body unit
Block(item, src) == << [unit |-> "header", path |-> item], [unit |-> src, path |-> item] >>

\* leave the loops that have no item left
RECURSIVE Unwind(_)
Unwind(st) ==
    IF st = <<>> THEN st
    ELSE IF st[Len(st)].i > Len(st[Len(st)].contents) THEN Unwind(SubSeq(st, 1, Len(st) - 1))
    ELSE st

\* the enclosing loop moves to its next item
Advance(st) == [st EXCEPT ![Len(st)].i = @ + 1]

\* mutant: the count is taken over every block
IntWhole(n) == n

\* int(n * 0.6); the double product truncates to the same integer as
\* 6n div 10 for every n below two million
IntSixTenths(n) == (n * 6) \div 10

\* num_tokens_from_string, with a stand-in tokenizer of one token per text unit
num_tokens_from_string(string) == Len(string)

(***************************************************************************)
(* State.                                                                  *)
(***************************************************************************)
VARIABLES
    fs,           \* the directory tree: path -> "dir", "text", "binary"
    exclusions,   \* default_exclusions + ALL_EXCLUSIONS + args.exclude
    args_lang,    \* args.lang
    use_aider,    \* args.aider
    pc,           \* "cli", "exited", "main", "walk", "write", "tokens", "done", "crashed"
    extensions,   \* the list get_extensions_for_langs returned
    stack,        \* the loops of process_directory / process_item under way
    tree,         \* process_directory's tree
    visited,      \* the path of the entry behind each line of tree
    content,      \* process_directory's content
    emptyMaps,    \* files for which get_repo_map returned nothing
    outFile,      \* the output file
    num_tokens,   \* main's num_tokens
    stdout,       \* what was printed
    exitStatus    \* the status of exit(), -1 while none

vars == <<fs, exclusions, args_lang, use_aider, pc, extensions, stack, tree, visited,
          content, emptyMaps, outFile, num_tokens, stdout, exitStatus>>

inputs == <<fs, exclusions, args_lang, use_aider>>
walkVars == <<stack, tree, visited, content, emptyMaps>>

\* a small tree on which every branch of the walk is taken
SmallTree ==
    (RootPath :> "dir")
      @@ (<<RootName, <<"t", "e", "s", "t", "s">> >> :> "dir")
      @@ (<<RootName, <<"t", "e", "s", "t", "s">>, <<"a", ".", "p", "y">> >> :> "text")
      @@ (<<RootName, <<"a", ".", "p", "y">> >> :> "text")
      @@ (<<RootName, <<"c", ".", "j", "s">> >> :> "text")

\* a tree whose entries the patterns of ExtraPatterns tell apart
MixedTree ==
    (RootPath :> "dir")
      @@ (<<RootName, <<"a", ".", "p", "y">> >> :> "dir")
      @@ (<<RootName, <<"a", ".", "p", "y">>, <<"a", ".", "p", "y">> >> :> "text")
      @@ (<<RootName, <<"a", ".", "p", "y">>, <<"B", ".", "P", "Y">> >> :> "text")
      @@ (<<RootName, <<"a", ".", "p", "y">>, <<"c", ".", "p", "y">> >> :> "text")
      @@ (<<RootName, <<"B", ".", "P", "Y">> >> :> "dir")
      @@ (<<RootName, <<"B", ".", "P", "Y">>, <<"a", ".", "p", "y">> >> :> "binary")
      @@ (<<RootName, <<"B", ".", "P", "Y">>, <<"c", ".", "j", "s">> >> :> "text")
      @@ (<<RootName, <<"B", ".", "P", "Y">>, <<"c", ".", "p", "y">> >> :> "text")

InitRest ==
    /\ pc = "cli"
    /\ extensions = <<>>
    /\ stack = <<>>
    /\ tree = <<>>
    /\ visited = <<>>
    /\ content = <<>>
    /\ emptyMaps = {}
    /\ outFile = [written |-> FALSE, tree |-> <<>>, text |-> <<>>]
    /\ num_tokens = 0
    /\ stdout = <<>>
    /\ exitStatus = -1

\* directory trees of up to MaxEntries entries, run with --lang python and
\* the default exclusions
InitTrees ==
    /\ fs \in Trees(MaxEntries)
    /\ exclusions = default_exclusions
    /\ args_lang = <<"python">>
    /\ use_aider \in BOOLEAN

\* up to MaxExtra further exclusion patterns, run on two trees
InitExclusions ==
    /\ fs \in {SmallTree, MixedTree}
    /\ \E extra \in SeqsUpTo(ExtraPatterns, MaxExtra) : exclusions = default_exclusions \o extra
    /\ args_lang \in {None, <<"python">>}
    /\ use_aider \in BOOLEAN

\* --lang values of up to MaxLangLen atoms, run on one small tree
InitLangs ==
    /\ fs = SmallTree
    /\ exclusions = default_exclusions
    /\ args_lang \in {None} \cup SeqsUpTo(LangAtoms, MaxLangLen)
    /\ use_aider = FALSE

Init == (InitTrees \/ InitExclusions \/ InitLangs) /\ InitRest

(***************************************************************************)
(* __main__: the exclusions are printed and --lang is validated.           *)
(***************************************************************************)
ValidateLangs ==
    /\ pc = "cli"
    /\ IF RejectsLang(args_lang)
       THEN /\ stdout' = stdout \o <<"Exclusion patterns", "Unsupported language", "Supported languages">>
            /\ exitStatus' = 1
            /\ pc' = "exited"
       ELSE /\ stdout' = Append(stdout, "Exclusion patterns")
            /\ pc' = "main"
            /\ UNCHANGED exitStatus
    /\ UNCHANGED <<inputs, extensions, walkVars, outFile, num_tokens>>

(***************************************************************************)
(* main, up to the first loop of process_directory.                        *)
(***************************************************************************)
StartMain ==
    /\ pc = "main"
    /\ extensions' = get_extensions_for_langs(args_lang)
    /\ stack' = Unwind(<< [contents |-> SortedContents(fs, RootPath), i |-> 1, prefix |-> <<>>] >>)
    /\ pc' = IF stack' = <<>> THEN "write" ELSE "walk"
    /\ UNCHANGED <<inputs, tree, visited, content, emptyMaps, outFile, num_tokens, stdout, exitStatus>>

(***************************************************************************)
(* process_item: one call, up to the calls it makes for its children.      *)
(***************************************************************************)
Frame == stack[Len(stack)]
Item == Frame.contents[Frame.i]
IsLast == Frame.i = Len(Frame.contents)

\* the call returns and the walk goes on with what remains
Return(st) ==
    /\ stack' = Unwind(st)
    /\ pc' = IF stack' = <<>> THEN "write" ELSE "walk"

EmitLine ==
    /\ tree' = Append(tree, TreeLine(Frame.prefix, IsLast, Item))
    /\ visited' = Append(visited, Item)

ProcessExcluded ==
    /\ pc = "walk"
    /\ should_exclude(exclusions, Item)
    /\ Return(Advance(stack))
    /\ UNCHANGED <<inputs, extensions, tree, visited, content, emptyMaps, outFile, num_tokens, stdout, exitStatus>>

ProcessDir ==
    /\ pc = "walk"
    /\ ~should_exclude(exclusions, Item)
    /\ IsDir(fs, Item)
    /\ EmitLine
    /\ Return(Append(Advance(stack),
                     [contents |-> SortedContents(fs, Item), i |-> 1,
                      prefix |-> ChildPrefix(Frame.prefix, IsLast)]))
    /\ UNCHANGED <<inputs, extensions, content, emptyMaps, outFile, num_tokens, stdout, exitStatus>>

ProcessOtherFile ==
    /\ pc = "walk"
    /\ ~should_exclude(exclusions, Item)
    /\ ~IsDir(fs, Item)
    /\ ~SuffixIncluded(Item, extensions)
    /\ EmitLine
    /\ Return(Advance(stack))
    /\ UNCHANGED <<inputs, extensions, content, emptyMaps, outFile, num_tokens, stdout, exitStatus>>

IncludedFile ==
    /\ pc = "walk"
    /\ ~should_exclude(exclusions, Item)
    /\ ~IsDir(fs, Item)
    /\ SuffixIncluded(Item, extensions)

ProcessSparse ==
    /\ IncludedFile
    /\ use_aider
    /\ EmitLine
    /\ \E repo_content \in {"", "map"} :
          IF repo_content # ""
          THEN content' = Append(content, Block(Item, "map")) /\ UNCHANGED emptyMaps
          ELSE emptyMaps' = emptyMaps \cup {Item} /\ UNCHANGED content
    /\ Return(Advance(stack))
    /\ UNCHANGED <<inputs, extensions, outFile, num_tokens, stdout, exitStatus>>

ProcessFileRead ==
    /\ IncludedFile
    /\ ~use_aider
    /\ fs[Item] = "text"
    /\ EmitLine
    /\ content' = Append(content, Block(Item, "text"))
    /\ Return(Advance(stack))
    /\ UNCHANGED <<inputs, extensions, emptyMaps, outFile, num_tokens, stdout, exitStatus>>

\* mutant: the decode error is caught around the walk, which it ends
ProcessFileDecodeErrorEndsWalk ==
    /\ IncludedFile
    /\ ~use_aider
    /\ fs[Item] = "binary"
    /\ EmitLine
    /\ stdout' = Append(stdout, "Error reading")
    /\ stack' = <<>>
    /\ pc' = "write"
    /\ UNCHANGED <<inputs, extensions, content, emptyMaps, outFile, num_tokens, exitStatus>>

ProcessFileDecodeError ==
    /\ IncludedFile
    /\ ~use_aider
    /\ fs[Item] = "binary"
    /\ EmitLine
    /\ stdout' = Append(stdout, "Error reading")
    /\ Return(Advance(stack))
    /\ UNCHANGED <<inputs, extensions, content, emptyMaps, outFile, num_tokens, exitStatus>>

\* mutant: the error of open() is swallowed and main goes on to write
ProcessFileOSErrorSwallowed ==
    /\ IncludedFile
    /\ ~use_aider
    /\ EmitLine
    /\ pc' = "write"
    /\ UNCHANGED <<inputs, extensions, stack, content, emptyMaps, outFile, num_tokens, stdout, exitStatus>>

\* open() raises OSError (any file may be unreadable): the exception leaves
\* process_directory and main
ProcessFileOSError ==
    /\ IncludedFile
    /\ ~use_aider
    /\ EmitLine
    /\ pc' = "crashed"
    /\ UNCHANGED <<inputs, extensions, stack, content, emptyMaps, outFile, num_tokens, stdout, exitStatus>>

(***************************************************************************)
(* main, after process_directory has returned.                             *)
(***************************************************************************)
WriteOutput ==
    /\ pc = "write"
    /\ outFile' = [written |-> TRUE, tree |-> tree, text |-> Concat(content)]
    /\ pc' = "tokens"
    /\ UNCHANGED <<inputs, extensions, walkVars, num_tokens, stdout, exitStatus>>

CountTokens ==
    /\ pc = "tokens"
    /\ num_tokens' = num_tokens_from_string(Concat(SubSeq(content, 1, IntSixTenths(Len(content)))))
    /\ stdout' = stdout \o <<"Num tokens", "Output written to">>
    /\ pc' = "done"
    /\ UNCHANGED <<inputs, extensions, walkVars, outFile, exitStatus>>

Next ==
    \/ ValidateLangs
    \/ StartMain
    \/ ProcessExcluded
    \/ ProcessDir
    \/ ProcessOtherFile
    \/ ProcessSparse
    \/ ProcessFileRead
    \/ ProcessFileDecodeError
    \/ ProcessFileOSError
    \/ WriteOutput
    \/ CountTokens

Spec == Init /\ [][Next]_vars

(***************************************************************************)
(* Vocabulary of the properties.                                           *)
(***************************************************************************)
Returned == pc \in {"write", "tokens", "done"}    \* process_directory has returned

Depth(p) == Len(p) - 2                            \* the root's children have depth 0
Emitted == {visited[i] : i \in 1..Len(visited)}
LineOf(p) == tree[CHOOSE i \in 1..Len(visited) : visited[i] = p]
ConnectorOf(p) == SubSeq(LineOf(p), 4 * Depth(p) + 1, 4 * Depth(p) + 4)
HasBlock(p) == \E j \in 1..Len(content) : content[j][1].path = p

\* p, or a directory above it and below the root, matches an exclusion pattern
UnderExclusion(p) == \E k \in 2..Len(p) : \E e \in 1..Len(exclusions) : PathMatch(SubSeq(p, 1, k), exclusions[e])

Files == {p \in DOMAIN fs : fs[p] # "dir"}
Entries == DOMAIN fs \ {RootPath}

\* the text after the final dot of a name, <<"no dot">> when it has none
AfterFinalDot(name) ==
    IF \A j \in 1..Len(name) : name[j] # "." THEN <<"no dot">>
    ELSE LET j == CHOOSE d \in 1..Len(name) : name[d] = "." /\ \A e \in (d + 1)..Len(name) : name[e] # "."
         IN SubSeq(name, j + 1, Len(name))

ExtensionSet == {extensions[k] : k \in 1..Len(extensions)}

\* the text after the final dot of p's name is in the extension list, and
\* that dot is not the first character of the name
ListedSuffix(p) ==
    /\ AfterFinalDot(Name(p)) \in ExtensionSet
    /\ \E j \in 2..Len(Name(p)) : Name(p)[j] = "." /\ \A e \in (j + 1)..Len(Name(p)) : Name(p)[e] # "."

(***************************************************************************)
(* C1: no entry whose path matches an exclusion pattern, and no entry      *)
(* below a directory whose path matches one, has a tree line or a content  *)
(* block.                                                                  *)
(***************************************************************************)
C1_ExcludedNeverAppear ==
    /\ Len(tree) = Len(visited)
    /\ \A i \in 1..Len(visited) : ~UnderExclusion(visited[i])
    /\ \A j \in 1..Len(content) : ~UnderExclusion(content[j][1].path)

\* a walk has returned over a tree holding an entry that matches a pattern
\* and an entry that matches none but lies below a directory that does
C1_Witness ==
    /\ pc = "done"
    /\ visited # <<>>
    /\ \E p \in Entries : \E e \in 1..Len(exclusions) : PathMatch(p, exclusions[e])
    /\ \E p \in Entries : /\ UnderExclusion(p)
                          /\ \A e \in 1..Len(exclusions) : ~PathMatch(p, exclusions[e])

(***************************************************************************)
(* C3: among the emitted children of one directory, the directories come   *)
(* before the files, and the directories, and the files, are in            *)
(* non-decreasing order of their lowercased names.                         *)
(***************************************************************************)
C3_DirsFirstThenByLowerName ==
    \A i, j \in 1..Len(visited) :
        (i < j /\ Parent(visited[i]) = Parent(visited[j])) =>
            /\ fs[visited[j]] = "dir" => fs[visited[i]] = "dir"
            /\ (fs[visited[i]] = "dir") = (fs[visited[j]] = "dir") =>
                   ~StrLess(Lower(Name(visited[j])), Lower(Name(visited[i])))

\* a directory shows a directory and then two files whose order by lowercased
\* name is the reverse of their order by name
C3_Witness ==
    /\ pc = "done"
    /\ \E i, j, k \in 1..Len(visited) :
          /\ i < j /\ j < k
          /\ Parent(visited[i]) = Parent(visited[j]) /\ Parent(visited[j]) = Parent(visited[k])
          /\ fs[visited[i]] = "dir" /\ fs[visited[j]] # "dir" /\ fs[visited[k]] # "dir"
          /\ StrLess(Name(visited[k]), Name(visited[j]))

(***************************************************************************)
(* C4 (as claimed): among the tree lines of the children of one directory, *)
(* the last emitted child has the corner connector and every other emitted *)
(* child the tee connector.                                                *)
(***************************************************************************)
C4_LastEmittedHasCorner ==
    Returned =>
        \A i \in 1..Len(visited) :
            LET last == \A j \in (i + 1)..Len(visited) : Parent(visited[j]) # Parent(visited[i])
            IN ConnectorOf(visited[i]) = (IF last THEN LastConnector ELSE MidConnector)

(***************************************************************************)
(* C9: a tree line at depth d is d indentation segments, the connector and *)
(* the name; the segment of an ancestor is four spaces if that ancestor    *)
(* was rendered with the corner connector and a bar and three spaces       *)
(* otherwise.                                                              *)
(***************************************************************************)
C9_LineShape ==
    \A i \in 1..Len(visited) :
        LET p == visited[i]
            segment(k) == IF ConnectorOf(SubSeq(p, 1, k + 1)) = LastConnector
                          THEN BlankIndent ELSE BarIndent
        IN /\ \A k \in 1..Depth(p) : SubSeq(p, 1, k + 1) \in Emitted
           /\ ConnectorOf(p) \in {LastConnector, MidConnector}
           /\ tree[i] = Concat([k \in 1..Depth(p) |-> segment(k)]) \o ConnectorOf(p) \o Name(p)

\* a line under a directory rendered with the tee and a line under one
\* rendered with the corner
C9_Witness ==
    /\ pc = "done"
    /\ \E i, j \in 1..Len(visited) :
          /\ Depth(visited[i]) >= 1 /\ SubSeq(tree[i], 1, 4) = BarIndent
          /\ Depth(visited[j]) >= 1 /\ SubSeq(tree[j], 1, 4) = BlankIndent

(***************************************************************************)
(* C2 (as claimed): whenever some comma-separated piece of --lang is not a *)
(* key of the registry, the program prints the supported languages and     *)
(* exits with status 1 before the walk begins, and never writes the        *)
(* output file.                                                            *)
(***************************************************************************)
SomePieceUnsupported ==
    /\ args_lang # None
    /\ \E k \in 1..Len(Split(args_lang)) :
          Split(args_lang)[k] \notin {<<"python">>, <<"javascript">>}

ExitsBeforeWalk ==
    /\ pc \in {"cli", "exited"}
    /\ pc = "exited" => /\ exitStatus = 1
                        /\ \E k \in 1..Len(stdout) : stdout[k] = "Supported languages"
    /\ tree = <<>> /\ visited = <<>> /\ content = <<>> /\ stack = <<>>
    /\ ~outFile.written

C2_UnsupportedAlwaysExits == SomePieceUnsupported => ExitsBeforeWalk

(***************************************************************************)
(* C2 (amended): the same for every --lang value that is not the empty     *)
(* string.                                                                 *)
(***************************************************************************)
C2_UnsupportedNonEmptyExits == (SomePieceUnsupported /\ args_lang # <<>>) => ExitsBeforeWalk

\* the program has exited on a --lang whose unsupported piece would be a
\* registry key once stripped and lowercased
C2_Witness ==
    /\ pc = "exited"
    /\ exitStatus = 1
    /\ args_lang = <<"python", ",", "Python">>

(***************************************************************************)
(* C5: in full-text mode, once the walk has returned, every file that is   *)
(* not under an exclusion and has an included extension has its tree line; *)
(* such a file has no content block if its bytes do not decode, and has    *)
(* its content block if they do, wherever it stands relative to the files  *)
(* that failed to decode; each failure was reported.                       *)
(***************************************************************************)
C5_DecodeFailureSkipsOnlyThatFile ==
    (Returned /\ ~use_aider) =>
        /\ \A p \in Files :
              (~UnderExclusion(p) /\ ListedSuffix(p)) =>
                  /\ p \in Emitted
                  /\ fs[p] = "binary" => ~HasBlock(p)
                  /\ fs[p] = "text" => HasBlock(p)
        /\ Cardinality({k \in 1..Len(stdout) : stdout[k] = "Error reading"})
              = Cardinality({p \in Emitted : fs[p] = "binary" /\ ListedSuffix(p)})

\* a file that does not decode was visited before a file that was read
C5_Witness ==
    /\ pc = "done"
    /\ ~use_aider
    /\ \E i, j \in 1..Len(visited) :
          /\ i < j
          /\ fs[visited[i]] = "binary" /\ ~HasBlock(visited[i])
          /\ ListedSuffix(visited[i])
          /\ fs[visited[j]] = "text" /\ HasBlock(visited[j])

(***************************************************************************)
(* C6: with n content blocks, the token count reported is the tokenizer's  *)
(* count over the first floor(0.6 n) blocks, and the output file holds the *)
(* tree and all n blocks, also after the count.                            *)
(***************************************************************************)
C6_TokensOverSixTenths ==
    pc = "done" =>
        LET n == Len(content)
            k == CHOOSE m \in 0..n : 5 * m <= 3 * n /\ 3 * n < 5 * (m + 1)
        IN /\ num_tokens = num_tokens_from_string(Concat(SubSeq(content, 1, k)))
           /\ outFile.written
           /\ outFile.tree = tree
           /\ outFile.text = Concat(content)
           /\ \A j \in 1..n : \E u \in 1..Len(outFile.text) : outFile.text[u] = content[j][2]

\* five blocks were written and the count was taken over three of them
C6_Witness ==
    /\ pc = "done"
    /\ Len(content) = 5
    /\ num_tokens = num_tokens_from_string(Concat(SubSeq(content, 1, 3)))

(***************************************************************************)
(* C7 (as claimed): once the walk has returned, a file not under an        *)
(* exclusion has a content block if and only if the text after the final   *)
(* dot of its name is in the extension list; a directory not under an      *)
(* exclusion is traversed and has no content block.                        *)
(***************************************************************************)
DirsTraversedWithoutBlock ==
    \A p \in Entries :
        (fs[p] = "dir" /\ ~UnderExclusion(p)) =>
            /\ p \in Emitted
            /\ ~HasBlock(p)
            /\ \A q \in ChildrenOf(fs, p) : ~UnderExclusion(q) => q \in Emitted

C7_BlockIffExtensionListed ==
    Returned =>
        /\ \A p \in Files :
              ~UnderExclusion(p) => (HasBlock(p) <=> AfterFinalDot(Name(p)) \in ExtensionSet)
        /\ DirsTraversedWithoutBlock

(***************************************************************************)
(* C7 (amended): once the walk has returned, a file not under an exclusion *)
(* has a content block if and only if the text after the final dot of its  *)
(* name is in the extension list, that dot is not the first character of   *)
(* the name, and the content was obtained: in full-text mode the file      *)
(* decodes, in sparse mode the collaborator returned a non-empty map.      *)
(***************************************************************************)
C7_BlockIffSuffixListedAndRead ==
    Returned =>
        /\ \A p \in Files :
              ~UnderExclusion(p) =>
                  (HasBlock(p) <=> /\ ListedSuffix(p)
                                   /\ IF use_aider THEN p \notin emptyMaps ELSE fs[p] = "text")
        /\ DirsTraversedWithoutBlock

\* B.PY was shown without a block next to a.py with one, and a directory
\* named a.py was traversed
C7_Witness ==
    /\ pc = "done"
    /\ \E p, q \in Emitted :
          /\ Name(p) = <<"B", ".", "P", "Y">> /\ fs[p] = "text" /\ ~HasBlock(p)
          /\ Name(q) = <<"a", ".", "p", "y">> /\ fs[q] = "text" /\ HasBlock(q)
    /\ \E d \in Emitted : fs[d] = "dir" /\ Name(d) = <<"a", ".", "p", "y">>

(***************************************************************************)
(* C8: for a language list made only of registry keys the extensions       *)
(* returned are, as a set, those registered for the named languages (for   *)
(* "python" exactly py); with no language list they are py, js, jsx, ts,   *)
(* tsx.                                                                    *)
(***************************************************************************)
RegisteredFor(name) ==
    IF name = <<"python">> THEN {<<"p", "y">>}
    ELSE IF name = <<"javascript">>
         THEN {<<"j", "s">>, <<"j", "s", "x">>, <<"t", "s">>, <<"t", "s", "x">>}
    ELSE {}

C8_ExtensionsOfNamedLanguages ==
    pc \in {"walk", "write", "tokens", "done", "crashed"} =>
        /\ args_lang = None =>
              ExtensionSet = RegisteredFor(<<"python">>) \cup RegisteredFor(<<"javascript">>)
        /\ (args_lang # None /\ ~SomePieceUnsupported) =>
              ExtensionSet = UNION {RegisteredFor(Split(args_lang)[k]) : k \in 1..Len(Split(args_lang))}
        /\ args_lang = <<"python">> => ExtensionSet = {<<"p", "y">>}

\* the extensions were resolved for "python,javascript"
C8_Witness ==
    /\ pc = "done"
    /\ args_lang = <<"python", ",", "javascript">>
    /\ Len(extensions) = 5

(***************************************************************************)
(* C10: the output file is written only once the walk has returned, the    *)
(* token count is printed only once the file is written, and a run whose   *)
(* walk ended with an error wrote no file and printed no token count.      *)
(***************************************************************************)
TokensPrinted == \E k \in 1..Len(stdout) : stdout[k] = "Num tokens"

C10_WalkThenWriteThenCount ==
    /\ outFile.written => (pc \in {"tokens", "done"} /\ stack = <<>> /\ outFile.tree = tree)
    /\ TokensPrinted => (outFile.written /\ pc = "done")
    /\ pc = "crashed" => (~outFile.written /\ ~TokensPrinted /\ ~ENABLED Next)
    /\ pc = "done" => (outFile.written /\ TokensPrinted)

\* the walk ended with an error after it had collected a line and a block
C10_Witness ==
    /\ pc = "crashed"
    /\ Len(tree) >= 2
    /\ content # <<>>

====
